---- MODULE Spec2Model ----
(***************************************************************************)
(* Per-account task supervisor of src/main.py: the two registries ACCOUNTS *)
(* and TASKS, the HTTP handlers add_account, remove_account, start, stop,  *)
(* reset_today, and the coroutine account_loop run as an asyncio task.     *)
(*                                                                         *)
(* Scheduling model: one asyncio event loop.  A handler without an await   *)
(* in its body is one atomic action.  A task runs from one suspension      *)
(* point (await) to the next in one atomic action LoopStep.                *)
(*                                                                         *)
(* Cancellation model: Task.cancel() on a task that is not done records a  *)
(* pending cancellation; the task's next step raises CancelledError at the *)
(* await it is suspended on (or before the first line of the coroutine if  *)
(* it never ran).  CancelledError derives from BaseException (Python 3.8   *)
(* and later), so "except Exception" in account_loop does not catch it and *)
(* it ends the task.                                                       *)
(***************************************************************************)
EXTENDS Integers, Sequences, FiniteSets, TLC

(* ---------------- bounds of the model ---------------- *)
MaxObjs  == 2      \* Account objects alive at the same time
MaxTasks == 2      \* asyncio.Task objects alive at the same time
MaxXp    == 1000   \* |today_xp|, |total_xp| stay within this
MaxLevelXp == 2500 \* largest xp given to level_from_xp on its own

(* ---------------- inputs ---------------- *)
\* The loops of different uids share no object, so one uid is followed through
\* every interleaving of its handlers, its loop and the loop of a removed
\* predecessor under the same uid.
UIDS         == {"u1"}
TargetInputs == {0, 1, 2}         \* target_level form values (besides absent)
Gains        == {-1000, 1000}     \* gained_xp values a poll may return
PositiveGains == {250, 1000}      \* gained_xp values of a poll that gains XP

(* ---------------- program constants ---------------- *)
MAX_ACCOUNTS == 20
XpPerLevel   == 1000

(* Optional[int]: None is the empty set, a value t is {t}. *)
None    == {}
Some(t) == {t}

VARIABLES
    heap,      \* the Account objects alive: reference -> Account record
    ACCOUNTS,  \* dict uid -> reference into heap
    tasks,     \* the asyncio.Task objects alive: reference -> task record
    TASKS,     \* dict uid -> reference into tasks
    last       \* the operation that produced this state and its response

vars == <<heap, ACCOUNTS, tasks, TASKS, last>>

(* ---------------- helpers ---------------- *)
Max(a, b) == IF a >= b THEN a ELSE b

DictSet(d, k, v) == [x \in (DOMAIN d) \cup {k} |-> IF x = k THEN v ELSE d[x]]
DictPop(d, k)    == [x \in (DOMAIN d) \ {k} |-> d[x]]

\* faulty variant: the division rounds up, so a level starts one XP late
LevelFromXpRoundedUp(xp) == Max(1, (xp + XpPerLevel - 1) \div XpPerLevel)

level_from_xp(xp) == Max(1, (xp \div XpPerLevel) + 1)

NewAccount ==
    [online |-> FALSE, matchmaking |-> FALSE, current_level |-> 1,
     target_level |-> None, today_xp |-> 0, total_xp |-> 0, running |-> FALSE]

\* asyncio.create_task(account_loop(uid)): scheduled, no line of the body run yet
NewTask(uid) == [uid |-> uid, acc |-> 0, pc |-> "created", must_cancel |-> FALSE]

\* Task.done()
Done(t) == t.pc \in {"finished", "cancelled", "failed"}

\* faulty variant: cancel() that marks a task whatever its state
CancelAlways(t) == [t EXCEPT !.must_cancel = TRUE]

\* Task.cancel(): no effect on a done task, else the next step raises CancelledError
Cancel(t) == IF Done(t) THEN t ELSE [t EXCEPT !.must_cancel = TRUE]

\* a fresh reference: the lowest one not in use
NewRef(d) == CHOOSE i \in 1..(Cardinality(DOMAIN d) + 1) : i \notin DOMAIN d

(* Object lifetime (reference counting): a Task object lives while it is   *)
(* not done (the event loop holds it) or TASKS refers to it; an Account    *)
(* object lives while ACCOUNTS refers to it or the frame of a task that is *)
(* not done holds it in its local variable acc.                            *)
LiveTasks(ts, T) ==
    LET keep == {i \in DOMAIN ts : ~Done(ts[i]) \/ \E u \in DOMAIN T : T[u] = i}
    IN  [i \in keep |-> ts[i]]

LiveHeap(h, A, ts) ==
    LET keep == {i \in DOMAIN h :
                    \/ \E u \in DOMAIN A : A[u] = i
                    \/ \E j \in DOMAIN ts : ~Done(ts[j]) /\ ts[j].acc = i}
    IN  [i \in keep |-> h[i]]

\* a task that ends: its frame, and with it the local acc, is released
End(t, how) == [t EXCEPT !.pc = how, !.acc = 0, !.must_cancel = FALSE]

\* the request handled (or the loop step taken) last, and its outcome
Resp(op, uid, status) == [op |-> op, uid |-> uid, arg |-> None, status |-> status]
StartResp(uid, target_level, status) ==
    [op |-> "start", uid |-> uid, arg |-> target_level, status |-> status]

\* faulty variant: the handle of a task that is done is dropped from TASKS
CommitDropDone(h, A, ts, T, resp) ==
    LET T1 == [u \in {x \in DOMAIN T : ~Done(ts[T[x]])} |-> T[u]] IN
    /\ tasks' = LiveTasks(ts, T1)
    /\ heap' = LiveHeap(h, A, LiveTasks(ts, T1))
    /\ ACCOUNTS' = A
    /\ TASKS' = T1
    /\ last' = resp

\* the state a handler or a loop step leaves behind, and its response
Commit(h, A, ts, T, resp) ==
    /\ tasks' = LiveTasks(ts, T)
    /\ heap' = LiveHeap(h, A, LiveTasks(ts, T))
    /\ ACCOUNTS' = A
    /\ TASKS' = T
    /\ last' = resp

\* a handler that raises HTTPException before any assignment
Reject(resp) ==
    /\ last' = resp
    /\ UNCHANGED <<heap, ACCOUNTS, tasks, TASKS>>

Init ==
    /\ heap = << >>
    /\ ACCOUNTS = << >>
    /\ tasks = << >>
    /\ TASKS = << >>
    /\ last = Resp("init", "", "ok")

(* ---------------- handlers ---------------- *)
add_account(uid) ==
    IF Cardinality(DOMAIN ACCOUNTS) >= MAX_ACCOUNTS
    THEN Reject(Resp("add", uid, "MaxAccounts"))
    ELSE IF uid \in DOMAIN ACCOUNTS
    THEN Reject(Resp("add", uid, "Exists"))
    ELSE /\ Cardinality(DOMAIN heap) < MaxObjs
         /\ LET a == NewRef(heap)
            IN  Commit(DictSet(heap, a, NewAccount), DictSet(ACCOUNTS, uid, a),
                       tasks, TASKS, Resp("add", uid, "ok"))

\* faulty variant: the account and its handle are dropped, the task is not cancelled
RemoveWithoutCancel(uid) ==
    IF uid \notin DOMAIN ACCOUNTS
    THEN Reject(Resp("remove", uid, "NotFound"))
    ELSE Commit(heap, DictPop(ACCOUNTS, uid), tasks, DictPop(TASKS, uid),
                Resp("remove", uid, "ok"))

remove_account(uid) ==
    IF uid \notin DOMAIN ACCOUNTS
    THEN Reject(Resp("remove", uid, "NotFound"))
    ELSE LET live == uid \in DOMAIN TASKS /\ ~Done(tasks[TASKS[uid]])
             h1   == IF live THEN [heap EXCEPT ![ACCOUNTS[uid]].running = FALSE]
                             ELSE heap
             ts1  == IF live THEN [tasks EXCEPT ![TASKS[uid]] = Cancel(@)]
                             ELSE tasks
         IN  Commit(h1, DictPop(ACCOUNTS, uid), ts1, DictPop(TASKS, uid),
                    Resp("remove", uid, "ok"))

\* faulty variant: the test written t < 0, which lets 0 through
ValidTargetFromZero(t) == ~(t < 0)

\* the check of lines 164-166: t is an int here (the form layer yields int or None)
ValidTarget(t) == ~(t < 1)

\* lines 162-167 once the target is accepted
SetTarget(a, target_level) ==
    IF target_level # None THEN [a EXCEPT !.target_level = target_level] ELSE a

\* faulty variant: the test of done() without its negation
AlreadyRunningInverted(ts, T, uid) == uid \in DOMAIN T /\ Done(ts[T[uid]])

\* line 170
AlreadyRunning(ts, T, uid) == uid \in DOMAIN T /\ ~Done(ts[T[uid]])

start(uid, target_level) ==
    IF uid \notin DOMAIN ACCOUNTS
    THEN Reject(StartResp(uid, target_level, "NotFound"))
    ELSE IF \E t \in target_level : ~ValidTarget(t)
    THEN Reject(StartResp(uid, target_level, "InvalidArgument"))
    ELSE LET a  == ACCOUNTS[uid]
             h1 == [heap EXCEPT ![a] = SetTarget(@, target_level)]
         IN  IF AlreadyRunning(tasks, TASKS, uid)
             THEN Commit(h1, ACCOUNTS, tasks, TASKS, StartResp(uid, target_level, "AlreadyRunning"))
             ELSE \* the Task object TASKS[uid] referred to, if any, is released
                  LET ts0 == LiveTasks(tasks, DictPop(TASKS, uid))
                      t   == NewRef(ts0)
                  IN  /\ Cardinality(DOMAIN ts0) < MaxTasks
                      /\ Commit([h1 EXCEPT ![a].running = TRUE], ACCOUNTS,
                                DictSet(ts0, t, NewTask(uid)), DictSet(TASKS, uid, t),
                                StartResp(uid, target_level, "ok"))

\* the effect of stop on the Account objects and on the tasks, for an existing uid
\* faulty variant: a stop that leaves running as it is
StopHeapStillRunning(h, A, uid) == h

StopHeap(h, A, uid) == [h EXCEPT ![A[uid]].running = FALSE]
StopTasks(ts, T, uid) ==
    IF uid \in DOMAIN T THEN [ts EXCEPT ![T[uid]] = Cancel(@)] ELSE ts

stop(uid) ==
    IF uid \notin DOMAIN ACCOUNTS
    THEN Reject(Resp("stop", uid, "NotFound"))
    ELSE Commit(StopHeap(heap, ACCOUNTS, uid), ACCOUNTS,
                StopTasks(tasks, TASKS, uid), TASKS, Resp("stop", uid, "ok"))

\* faulty variant: the reset clears the total as well
ResetTodayAndTotal(a) == [a EXCEPT !.today_xp = 0, !.total_xp = 0]

\* line 191
ResetToday(a) == [a EXCEPT !.today_xp = 0]

reset_today(uid) ==
    IF uid \notin DOMAIN ACCOUNTS
    THEN Reject(Resp("reset_today", uid, "NotFound"))
    ELSE Commit([heap EXCEPT ![ACCOUNTS[uid]] = ResetToday(@)], ACCOUNTS,
                tasks, TASKS, Resp("reset_today", uid, "ok"))

(* ---------------- account_loop, one step between suspension points ------- *)
\* faulty variant: the loop enters without going online
LoopEnterOffline(a) == [a EXCEPT !.running = TRUE]

\* lines 90-91
LoopEnter(a) == [a EXCEPT !.online = TRUE, !.running = TRUE]

\* lines 93-95: the body of the while loop up to the first await
LoopHead(a) == [a EXCEPT !.matchmaking = TRUE]

\* faulty variant: the handler that forgets running = False
StartFailedStillRunning(a) == [a EXCEPT !.matchmaking = FALSE]

\* lines 97-98, the handler of a failed gw_start_match
StartFailed(a) == [a EXCEPT !.matchmaking = FALSE, !.running = FALSE]

\* faulty variant: the update without line 111
ApplyGainStaleLevel(a, gained) ==
    [a EXCEPT !.today_xp = a.today_xp + gained,
              !.total_xp = a.total_xp + gained,
              !.matchmaking = FALSE]

\* faulty variant: the gain is added to today_xp only, total_xp and the level stay
ApplyGainTodayOnly(a, gained) ==
    [a EXCEPT !.today_xp = a.today_xp + gained,
              !.current_level = level_from_xp(a.total_xp),
              !.matchmaking = FALSE]

\* lines 109-112: the update after a poll that gained `gained`
ApplyGain(a, gained) ==
    LET total == a.total_xp + gained
    IN  [a EXCEPT !.today_xp = a.today_xp + gained,
                  !.total_xp = total,
                  !.current_level = level_from_xp(total),
                  !.matchmaking = FALSE]

\* line 114
TargetReached(a) == \E t \in a.target_level : a.current_level >= t

\* faulty variant: break without running = False
TargetStopStillRunning(a) == a

\* line 115
TargetStop(a) == [a EXCEPT !.running = FALSE]

\* lines 120-121, the code after the while loop
LoopExit(a) == [a EXCEPT !.matchmaking = FALSE, !.online = TRUE]

\* what CancelledError, raised at an await of account_loop, runs of account_loop
\* on its way out: no except clause catches it and there is no finally
CancelUnwind(a) == a

InRange(x) == -MaxXp <= x /\ x <= MaxXp

\* task tid is at suspension point pc with no cancellation pending
At(tid, pc) == ~tasks[tid].must_cancel /\ tasks[tid].pc = pc

\* faulty variant: CancelledError caught by the except clause of lines 106-107 (as it is
\* where CancelledError derives from Exception): the poll counts as failed and
\* the loop goes on
LoopCancelSwallowed(tid) ==
    LET t == tasks[tid] IN
    /\ t.must_cancel
    /\ IF t.pc = "poll_result"
       THEN Commit([heap EXCEPT ![t.acc] = ApplyGain(@, 0)], ACCOUNTS,
                   [tasks EXCEPT ![tid].pc = "sleep_1", ![tid].must_cancel = FALSE],
                   TASKS, Resp("loop", t.uid, "poll_error"))
       ELSE Commit(heap, ACCOUNTS, [tasks EXCEPT ![tid] = End(@, "cancelled")], TASKS,
                   Resp("loop", t.uid, "cancelled"))

\* the step of a task with a pending cancellation: CancelledError is raised at
\* the await it is suspended on, or in place of its first line if it never ran
LoopCancelled(tid) ==
    LET t  == tasks[tid]
        h1 == IF t.acc \in DOMAIN heap
              THEN [heap EXCEPT ![t.acc] = CancelUnwind(@)] ELSE heap
    IN  /\ t.must_cancel
        /\ Commit(h1, ACCOUNTS, [tasks EXCEPT ![tid] = End(@, "cancelled")], TASKS,
                  Resp("loop", t.uid, "cancelled"))

\* first step: lines 89-95 up to "await gw_start_match"
LoopFirst(tid) ==
    LET t == tasks[tid] IN
    /\ At(tid, "created")
    /\ IF t.uid \notin DOMAIN ACCOUNTS
       THEN \* KeyError at line 89
            Commit(heap, ACCOUNTS, [tasks EXCEPT ![tid] = End(@, "failed")], TASKS,
                   Resp("loop", t.uid, "KeyError"))
       ELSE LET a == ACCOUNTS[t.uid]
            IN  Commit([heap EXCEPT ![a] = LoopHead(LoopEnter(@))], ACCOUNTS,
                       [tasks EXCEPT ![tid].pc = "start_match", ![tid].acc = a], TASKS,
                       Resp("loop", t.uid, "queued"))

\* faulty variant: the long wait is skipped, the poll follows the submission at once
LoopStartOkNoWait(tid) ==
    /\ At(tid, "start_match")
    /\ Commit(heap, ACCOUNTS, [tasks EXCEPT ![tid].pc = "poll_result"], TASKS,
              Resp("loop", tasks[tid].uid, "start_ok"))

\* gw_start_match returns: line 101 up to "await asyncio.sleep(XP_PERIOD_SECONDS)"
LoopStartOk(tid) ==
    /\ At(tid, "start_match")
    /\ Commit(heap, ACCOUNTS, [tasks EXCEPT ![tid].pc = "sleep_period"], TASKS,
              Resp("loop", tasks[tid].uid, "start_ok"))

\* gw_start_match raises: lines 96-99, then 120-121 and the coroutine returns
LoopStartError(tid) ==
    LET t == tasks[tid] IN
    /\ At(tid, "start_match")
    /\ Commit([heap EXCEPT ![t.acc] = LoopExit(StartFailed(@))], ACCOUNTS,
              [tasks EXCEPT ![tid] = End(@, "finished")], TASKS,
              Resp("loop", t.uid, "start_error"))

\* the sleep of line 101 elapses: line 104 up to "await gw_poll_result"
LoopWaited(tid) ==
    /\ At(tid, "sleep_period")
    /\ Commit(heap, ACCOUNTS, [tasks EXCEPT ![tid].pc = "poll_result"], TASKS,
              Resp("loop", tasks[tid].uid, "waited"))

\* lines 109-118 (and 120-121 on break) with the gained amount of lines 103-107
LoopEvaluate(tid, gained, status) ==
    LET t  == tasks[tid]
        a1 == ApplyGain(heap[t.acc], gained)
    IN  /\ InRange(a1.total_xp) /\ InRange(a1.today_xp)
        /\ IF TargetReached(a1)
           THEN Commit([heap EXCEPT ![t.acc] = LoopExit(TargetStop(a1))], ACCOUNTS,
                       [tasks EXCEPT ![tid] = End(@, "finished")], TASKS,
                       Resp("loop", t.uid, status))
           ELSE Commit([heap EXCEPT ![t.acc] = a1], ACCOUNTS,
                       [tasks EXCEPT ![tid].pc = "sleep_1"], TASKS,
                       Resp("loop", t.uid, status))

\* gw_poll_result returns a payload whose gained_xp is the integer g
LoopPollOk(tid, g) ==
    /\ At(tid, "poll_result")
    /\ LoopEvaluate(tid, g, "poll_ok")

\* faulty variant: a failed poll handled like a failed submission (the run ends)
LoopPollErrorFatal(tid) ==
    /\ At(tid, "poll_result")
    /\ Commit([heap EXCEPT ![tasks[tid].acc] = LoopExit(StartFailed(@))], ACCOUNTS,
              [tasks EXCEPT ![tid] = End(@, "finished")], TASKS,
              Resp("loop", tasks[tid].uid, "poll_error"))

\* gw_poll_result raises, or its payload does not convert: gained = 0 (line 107)
LoopPollError(tid) ==
    /\ At(tid, "poll_result")
    /\ LoopEvaluate(tid, 0, "poll_error")

\* the sleep of line 118 elapses: the test of line 92, then 93-95 or 120-121
LoopYielded(tid) ==
    LET t == tasks[tid] IN
    /\ At(tid, "sleep_1")
    /\ IF heap[t.acc].running
       THEN Commit([heap EXCEPT ![t.acc] = LoopHead(@)], ACCOUNTS,
                   [tasks EXCEPT ![tid].pc = "start_match"], TASKS,
                   Resp("loop", t.uid, "queued"))
       ELSE Commit([heap EXCEPT ![t.acc] = LoopExit(@)], ACCOUNTS,
                   [tasks EXCEPT ![tid] = End(@, "finished")], TASKS,
                   Resp("loop", t.uid, "exit"))

\* one scheduling of task tid by the event loop
LoopStep(tid) ==
    /\ ~Done(tasks[tid])
    /\ \/ LoopCancelled(tid)
       \/ LoopFirst(tid)
       \/ LoopStartOk(tid)
       \/ LoopStartError(tid)
       \/ LoopWaited(tid)
       \/ \E g \in Gains : LoopPollOk(tid, g)
       \/ LoopPollError(tid)
       \/ LoopYielded(tid)

Next ==
    \/ \E uid \in UIDS : add_account(uid)
    \/ \E uid \in UIDS : remove_account(uid)
    \/ \E uid \in UIDS, t \in {None} \cup {Some(x) : x \in TargetInputs} : start(uid, t)
    \/ \E uid \in UIDS : stop(uid)
    \/ \E uid \in UIDS : reset_today(uid)
    \/ \E tid \in DOMAIN tasks : LoopStep(tid)

Spec == Init /\ [][Next]_vars

\* The runs in which no account is removed, under the event loop's scheduling:
\* it runs every callback it has scheduled, so the wake-up that Task.cancel()
\* schedules for a task is eventually run.
NextNoRemove ==
    \/ \E uid \in UIDS : add_account(uid)
    \/ \E uid \in UIDS, t \in {None} \cup {Some(x) : x \in TargetInputs} : start(uid, t)
    \/ \E uid \in UIDS : stop(uid)
    \/ \E uid \in UIDS : reset_today(uid)
    \/ \E tid \in DOMAIN tasks : LoopStep(tid)

FairSpec ==
    /\ Init /\ [][NextNoRemove]_vars
    /\ \A tid \in 1..MaxTasks : WF_vars(tid \in DOMAIN tasks /\ LoopCancelled(tid))

(* ======================= properties ======================= *)
\* this transition is a step of the coroutine of task i
Acts(i) ==
    /\ last'.op = "loop"
    /\ i \in DOMAIN tasks /\ (i \notin DOMAIN tasks' \/ tasks'[i] # tasks[i])

\* the Account object of uid in the store
Acc(uid) == heap[ACCOUNTS[uid]]

\* the tasks of uid that are not finished
Unfinished(uid) == {i \in DOMAIN tasks : tasks[i].uid = uid /\ ~Done(tasks[i])}

\* C1 as stated: for every uid, at most one loop task that is not finished exists.
C1_AtMostOneUnfinished ==
    \A uid \in UIDS : Cardinality(Unfinished(uid)) <= 1

\* C1 amended: for every uid, at most one loop task exists that is neither
\* finished nor has a cancellation pending (requested by stop or remove_account).
C1_AtMostOneActive ==
    \A uid \in UIDS :
        Cardinality({i \in Unfinished(uid) : ~tasks[i].must_cancel}) <= 1

\* start was called on an account whose loop is active, and one loop is active
C1_Witness ==
    /\ last = StartResp("u1", None, "AlreadyRunning")
    /\ Cardinality({i \in Unfinished("u1") : ~tasks[i].must_cancel}) = 1

\* C2 as stated: once the handle of an account's loop is finished, whatever the
\* exit path, the account's matchmaking flag is false.
C2_MatchmakingClearedOnExit ==
    \A uid \in DOMAIN ACCOUNTS :
        (uid \in DOMAIN TASKS /\ Done(tasks[TASKS[uid]])) => ~Acc(uid).matchmaking

\* task i, whose cancellation is pending, ends in this transition as cancelled
\* and no Account object changes
EndsCancelled(i) ==
    /\ i \notin DOMAIN tasks' \/ tasks'[i].pc = "cancelled"
    /\ \A r \in DOMAIN heap' : r \in DOMAIN heap /\ heap'[r] = heap[r]

\* C3 (safety part): a task whose cancellation was requested while it was
\* suspended takes exactly one more step, which ends it there: it enters neither
\* a StartWork nor a PollOutcome call and changes no Account object.
C3_CancelledTaskOnlyEnds ==
    [][\A i \in DOMAIN tasks :
          (tasks[i].must_cancel /\ Acts(i)) => EndsCancelled(i)]_vars

ClaimedLevel(xp) == IF (xp \div 1000) + 1 >= 1 THEN (xp \div 1000) + 1 ELSE 1

\* C4: in every reachable state every account in the store has
\* current_level = max(1, total_xp div 1000 + 1).
C4_LevelDerivedFromXp ==
    \A uid \in DOMAIN ACCOUNTS : Acc(uid).current_level = ClaimedLevel(Acc(uid).total_xp)

\* a poll has raised total_xp and the level has followed
C4_Witness ==
    /\ last = Resp("loop", "u1", "poll_ok")
    /\ "u1" \in DOMAIN ACCOUNTS
    /\ Acc("u1").total_xp = 1000 /\ Acc("u1").current_level = 2

\* task i evaluates a poll (lines 103-118) in this transition
Evaluates(i) ==
    /\ Acts(i) /\ tasks[i].pc = "poll_result"
    /\ last'.status \in {"poll_ok", "poll_error"}

\* task i is finished after this transition
FinishedNext(i) == i \notin DOMAIN tasks' \/ tasks'[i].pc = "finished"

\* C5: when a poll cycle leaves current_level >= target_level, running is false
\* after that same step and the task is finished (so it makes no further gateway
\* call); with target_level = 2, total_xp = 0 and a poll returning 1000 the
\* cycle ends with total_xp = 1000, current_level = 2, running = false.
C5_TargetReachedStops ==
    [][\A i \in DOMAIN tasks :
          Evaluates(i) =>
            LET a == tasks[i].acc IN
            /\ a \in DOMAIN heap'
            /\ (\E t \in heap'[a].target_level : heap'[a].current_level >= t)
                  => (~heap'[a].running /\ FinishedNext(i))
            /\ (/\ heap[a].target_level = {2} /\ heap[a].total_xp = 0
                /\ heap'[a].total_xp = 1000)
                  => (heap'[a].current_level = 2 /\ ~heap'[a].running /\ FinishedNext(i))
      ]_vars

\* account with target 2 after one cycle that gained 1000: stopped at level 2
C5_Witness ==
    /\ last = Resp("loop", "u1", "poll_ok")
    /\ "u1" \in DOMAIN ACCOUNTS /\ "u1" \in DOMAIN TASKS
    /\ Acc("u1").target_level = {2} /\ Acc("u1").total_xp = 1000
    /\ Acc("u1").today_xp = 1000 /\ Acc("u1").current_level = 2
    /\ ~Acc("u1").running /\ tasks[TASKS["u1"]].pc = "finished"

\* C6: a failed StartWork ends the run in that step: running and matchmaking
\* are false, today_xp, total_xp and current_level are unchanged and the task is
\* finished, so it makes neither a PollOutcome nor a second StartWork call.
C6_StartErrorEndsRun ==
    [][\A i \in DOMAIN tasks :
          (Acts(i) /\ last'.status = "start_error") =>
            LET a == tasks[i].acc IN
            /\ tasks[i].pc = "start_match"
            /\ a \in DOMAIN heap'
            /\ ~heap'[a].running /\ ~heap'[a].matchmaking
            /\ heap'[a].today_xp = heap[a].today_xp
            /\ heap'[a].total_xp = heap[a].total_xp
            /\ heap'[a].current_level = heap[a].current_level
            /\ FinishedNext(i)
      ]_vars

\* the submission of u1 failed after an earlier run had gained XP
C6_Witness ==
    /\ last = Resp("loop", "u1", "start_error")
    /\ "u1" \in DOMAIN ACCOUNTS /\ "u1" \in DOMAIN TASKS
    /\ tasks[TASKS["u1"]].pc = "finished"
    /\ Acc("u1").total_xp = 1000 /\ ~Acc("u1").running /\ ~Acc("u1").matchmaking

\* C7: a cycle whose poll fails leaves today_xp and total_xp unchanged; unless
\* the target is set and met, running stays true and the task goes to the short
\* sleep, from which its next step (if it is not cancelled) is a new StartWork call.
C7_PollErrorIsZeroGain ==
    [][\A i \in DOMAIN tasks :
          LET a == tasks[i].acc IN
          /\ (Evaluates(i) /\ last'.status = "poll_error") =>
                /\ a \in DOMAIN heap'
                /\ heap'[a].today_xp = heap[a].today_xp
                /\ heap'[a].total_xp = heap[a].total_xp
                /\ ~(\E t \in heap[a].target_level : heap[a].current_level >= t)
                      => /\ heap[a].running /\ heap'[a].running
                         /\ i \in DOMAIN tasks' /\ tasks'[i].pc = "sleep_1"
          /\ (Acts(i) /\ tasks[i].pc = "sleep_1" /\ ~tasks[i].must_cancel) =>
                /\ i \in DOMAIN tasks' /\ tasks'[i].pc = "start_match"
                /\ heap'[a].running /\ heap'[a].matchmaking
      ]_vars

\* the poll of u1 failed after an earlier gain: the gain is kept, the run goes on
C7_Witness ==
    /\ last = Resp("loop", "u1", "poll_error")
    /\ "u1" \in DOMAIN ACCOUNTS /\ "u1" \in DOMAIN TASKS
    /\ tasks[TASKS["u1"]].pc = "sleep_1"
    /\ Acc("u1").total_xp = 1000 /\ Acc("u1").running

\* C8 as stated: in every step total_xp of every account does not decrease and
\* stays non-negative, and today_xp does not decrease except to 0 by reset_today.
C8_XpNeverDecreases ==
    [][\A r \in DOMAIN heap :
          r \in DOMAIN heap' =>
            /\ heap'[r].total_xp >= heap[r].total_xp
            /\ heap'[r].total_xp >= 0
            /\ \/ heap'[r].today_xp >= heap[r].today_xp
               \/ (last'.op = "reset_today" /\ heap'[r].today_xp = 0)
      ]_vars

\* start(uid, target_level) leaves the registries and every object unchanged
StartRejected(status) ==
    /\ last'.op = "start" /\ last'.status = status
    /\ UNCHANGED <<heap, ACCOUNTS, tasks, TASKS>>

\* C9: start fails with NotFound when uid is not in the store and with
\* InvalidArgument when the target level supplied is not positive; either way no
\* task is created and no account field (target_level, running, ...) changes.
C9_StartFailures ==
    [][last'.op = "start" =>
          LET uid == last'.uid  target == last'.arg IN
          /\ uid \notin DOMAIN ACCOUNTS => StartRejected("NotFound")
          /\ (uid \in DOMAIN ACCOUNTS /\ \E x \in target : x <= 0)
                => StartRejected("InvalidArgument")
          /\ last'.status \in {"NotFound", "InvalidArgument"}
                => (uid \notin DOMAIN ACCOUNTS \/ \E x \in target : x <= 0)
      ]_vars

\* an invalid target was rejected for a running account that has a target
C9_Witness ==
    /\ last = StartResp("u1", Some(0), "InvalidArgument")
    /\ "u1" \in DOMAIN ACCOUNTS /\ "u1" \in DOMAIN TASKS
    /\ Acc("u1").target_level = {2} /\ Acc("u1").running
    /\ ~Done(tasks[TASKS["u1"]])

\* uid is in the store and is stopped or was never started: it has no handle,
\* a finished handle, or a handle whose cancellation stop has already requested
Stopped(uid) ==
    \/ uid \notin DOMAIN TASKS
    \/ Done(tasks[TASKS[uid]])
    \/ (tasks[TASKS[uid]].must_cancel /\ ~Acc(uid).running)

\* C10: stop on a stopped or never started account answers ok and changes no
\* account field and no handle; the state after stop is a fixed point of stop
\* (stop twice = stop once); stop on an unknown uid answers NotFound and changes
\* nothing.
C10_StopIdempotent ==
    [][\A uid \in UIDS :
          (last'.op = "stop" /\ stop(uid)) =>
            /\ uid \notin DOMAIN ACCOUNTS =>
                  (last'.status = "NotFound" /\ UNCHANGED <<heap, ACCOUNTS, tasks, TASKS>>)
            /\ uid \in DOMAIN ACCOUNTS =>
                  /\ last'.status = "ok"
                  /\ Stopped(uid) => UNCHANGED <<heap, ACCOUNTS, tasks, TASKS>>
                  /\ StopHeap(heap', ACCOUNTS', uid) = heap'
                  /\ StopTasks(tasks', TASKS', uid) = tasks'
                  /\ LiveTasks(tasks', TASKS') = tasks'
      ]_vars

\* stop was answered ok for an account whose handle is finished
C10_Witness ==
    /\ last = Resp("stop", "u1", "ok")
    /\ "u1" \in DOMAIN ACCOUNTS /\ "u1" \in DOMAIN TASKS
    /\ Done(tasks[TASKS["u1"]])
    /\ Acc("u1").total_xp = 1000

\* C11 as stated: start answered "Already running" spawns no loop and leaves every
\* field of the account (target_level too) and the handle unchanged.
C11_StartWhileActiveNoOp ==
    [][(last'.op = "start" /\ last'.status = "AlreadyRunning")
          => UNCHANGED <<heap, ACCOUNTS, tasks, TASKS>>]_vars

\* reset_today(uid) answered ok in this transition, with its whole effect:
\* today_xp of the account of uid is 0 and nothing else differs
ResetOnly(uid) ==
    /\ uid \in DOMAIN ACCOUNTS
    /\ last'.status = "ok"
    /\ UNCHANGED <<ACCOUNTS, tasks, TASKS>>
    /\ DOMAIN heap' = DOMAIN heap
    /\ \A r \in DOMAIN heap :
          IF r = ACCOUNTS[uid]
          THEN heap'[r] = [heap[r] EXCEPT !.today_xp = 0]
          ELSE heap'[r] = heap[r]

C13_NoFinishedHandle ==
    \A uid \in DOMAIN TASKS : ~Done(tasks[TASKS[uid]])

\* C13 amended: the step in which a loop exits leaves the handle map as it is;
\* the handle of the exited loop stays in it as a done task.
C13_FinishedHandleKept ==
    [][\A i \in DOMAIN tasks :
          (Acts(i) /\ (i \notin DOMAIN tasks' \/ Done(tasks'[i]))) =>
            /\ TASKS' = TASKS
            /\ \A uid \in DOMAIN TASKS :
                  TASKS[uid] = i => (i \in DOMAIN tasks' /\ Done(tasks'[i]))
      ]_vars

\* the loop of u1 reached its target and its finished task is still the handle
C13_Witness ==
    /\ last = Resp("loop", "u1", "poll_ok")
    /\ "u1" \in DOMAIN TASKS /\ tasks[TASKS["u1"]].pc = "finished"

\* C14 as stated: a start answered with success leaves running true and a loop
\* of uid that is live, with no cancellation pending, entering the queue.
C14_StartBeginsRun ==
    [][(last'.op = "start" /\ last'.status \in {"ok", "AlreadyRunning"}) =>
          LET uid == last'.uid IN
          /\ heap'[ACCOUNTS'[uid]].running
          /\ uid \in DOMAIN TASKS'
          /\ ~Done(tasks'[TASKS'[uid]]) /\ ~tasks'[TASKS'[uid]].must_cancel
      ]_vars

\* task i is not the handle of any uid
Orphan(i) == ~\E uid \in DOMAIN TASKS : TASKS[uid] = i

\* C15: the task of a removed account has its cancellation pending from the
\* remove on, and its only step ends it: it makes no gateway call and changes no
\* Account object, neither its own nor one added later under the same uid.
C15_RemovedLoopInert ==
    [][\A i \in DOMAIN tasks :
          Orphan(i) => (tasks[i].must_cancel /\ (Acts(i) => EndsCancelled(i)))]_vars

\* the task of the removed account has just ended as cancelled while the account
\* added after it under the same uid runs its own loop
C15_Witness ==
    /\ last = Resp("loop", "u1", "cancelled")
    /\ "u1" \in DOMAIN ACCOUNTS /\ "u1" \in DOMAIN TASKS
    /\ tasks[TASKS["u1"]].pc = "sleep_period" /\ ~tasks[TASKS["u1"]].must_cancel
    /\ Acc("u1").running /\ Acc("u1").total_xp = 0

(* ---------------- level_from_xp on its own ---------------- *)
\* one account in the store, no loop: lines 110-111 are applied to it with
\* every non-negative gain that keeps total_xp within 0..MaxLevelXp, so every
\* xp of the range is given to level_from_xp and every pair xp <= xp' is a step
LevelInit ==
    /\ heap = <<NewAccount>>
    /\ ACCOUNTS = [uid \in {"u1"} |-> 1]
    /\ tasks = << >>
    /\ TASKS = << >>
    /\ last = Resp("init", "", "ok")

LevelApply(gained) ==
    /\ heap[1].total_xp + gained <= MaxLevelXp
    /\ heap' = [heap EXCEPT ![1] = ApplyGain(@, gained)]
    /\ last' = Resp("level", "u1", "ok")
    /\ UNCHANGED <<ACCOUNTS, tasks, TASKS>>

LevelNext == \E gained \in 0..MaxLevelXp : LevelApply(gained)

LevelSpec == LevelInit /\ [][LevelNext]_vars

\* C16: for every xp of 0..MaxLevelXp level_from_xp(xp) = max(1, xp div 1000 + 1),
\* it is at least 1, it is 1 at 0 and at 999, 2 at 1000 and 3 at 2500, and it
\* does not decrease when xp grows.
C16_LevelFromXp ==
    /\ [](LET xp == heap[1].total_xp
              level == heap[1].current_level
          IN  /\ xp \in 0..MaxLevelXp
              /\ level = ClaimedLevel(xp)
              /\ level >= 1
              /\ (xp = 0 => level = 1)
              /\ (xp = 999 => level = 1)
              /\ (xp = 1000 => level = 2)
              /\ (xp = 2500 => level = 3))
    /\ [][heap'[1].total_xp >= heap[1].total_xp
            => heap'[1].current_level >= heap[1].current_level]_vars

\* level_from_xp was given 2500 and answered 3
C16_Witness ==
    /\ last = Resp("level", "u1", "ok")
    /\ heap[1].total_xp = 2500 /\ heap[1].current_level = 3

\* where the coroutine of task i is suspended after this transition; a task that
\* is no longer kept has ended
PcAfter(i) == IF i \in DOMAIN tasks' THEN tasks'[i].pc ELSE "cancelled"

\* the phase changes of the claim, by suspension point: Idle is "created",
\* Queuing "start_match" (the StartWork call), Waiting "sleep_period",
\* Evaluating "poll_result" (the PollOutcome call and the XP update) with the
\* short sleep that closes the cycle, Stopped a task that is done
PhaseOrder ==
    {<<"created", "start_match">>, <<"start_match", "sleep_period">>,
     <<"sleep_period", "poll_result">>, <<"poll_result", "sleep_1">>,
     <<"sleep_1", "start_match">>,
     <<"start_match", "finished">>, <<"poll_result", "finished">>,
     <<"sleep_1", "finished">>, <<"created", "failed">>}
    \cup {<<pc, "cancelled">> :
             pc \in {"created", "start_match", "sleep_period", "poll_result", "sleep_1"}}

\* no Account object is changed by this transition
HeapKept == \A r \in DOMAIN heap' : r \in DOMAIN heap /\ heap'[r] = heap[r]

\* no XP counter of an Account object is changed by this transition
XpKept ==
    \A r \in DOMAIN heap' :
        /\ r \in DOMAIN heap
        /\ heap'[r].today_xp = heap[r].today_xp
        /\ heap'[r].total_xp = heap[r].total_xp

\* C17: a loop step moves its task along Idle -> Queuing -> Waiting ->
\* Evaluating -> (Queuing | Stopped); a poll is called only by the step that ends
\* the long wait, which follows a submission that succeeded; a submission is
\* called only from Idle or from the end of a cycle; XP changes only in the step
\* that receives the poll's outcome; the steps into and out of the long wait
\* change no Account object.
C17_PhaseOrder ==
    [][\A i \in DOMAIN tasks : Acts(i) =>
          /\ <<tasks[i].pc, PcAfter(i)>> \in PhaseOrder
          /\ (PcAfter(i) = "poll_result" => last'.status = "waited")
          /\ (PcAfter(i) = "sleep_period" => last'.status = "start_ok")
          /\ (tasks[i].pc # "poll_result" => XpKept)
          /\ (tasks[i].pc = "sleep_period" \/ PcAfter(i) = "sleep_period" => HeapKept)
      ]_vars

\* a second cycle has begun after a first one that gained XP
C17_Witness ==
    /\ last = Resp("loop", "u1", "queued")
    /\ "u1" \in DOMAIN TASKS /\ At(TASKS["u1"], "start_match")
    /\ Acc("u1").total_xp = 1000 /\ Acc("u1").matchmaking

\* C18 as stated: whenever the handle of an account is a task that is done, the
\* account is online, wherever the loop was when it was cancelled.
C18_OnlineAfterExit ==
    \A uid \in DOMAIN ACCOUNTS :
        (uid \in DOMAIN TASKS /\ Done(tasks[TASKS[uid]])) => Acc(uid).online

\* C18 amended: a loop step never turns online off, and the step that ends a
\* task whose first step had run (it had left "created") leaves the account of
\* that task online.
C18_OnlineAfterStartedRun ==
    [][\A i \in DOMAIN tasks : Acts(i) =>
          /\ \A r \in DOMAIN heap' : heap[r].online => heap'[r].online
          /\ (/\ tasks[i].pc # "created"
              /\ i \notin DOMAIN tasks' \/ Done(tasks'[i])
              /\ tasks[i].acc \in DOMAIN heap')
             => heap'[tasks[i].acc].online
      ]_vars

\* the loop of u1 was cancelled during its long wait and has ended: the account
\* is online and still marked as matchmaking
C18_Witness ==
    /\ last = Resp("loop", "u1", "cancelled")
    /\ "u1" \in DOMAIN ACCOUNTS /\ "u1" \in DOMAIN TASKS
    /\ tasks[TASKS["u1"]].pc = "cancelled"
    /\ Acc("u1").online /\ Acc("u1").matchmaking /\ ~Acc("u1").running

\* C19: an account of the store with running = true has a handle in TASKS that
\* is not done and has no cancellation pending.
C19_RunningHasLiveLoop ==
    \A uid \in DOMAIN ACCOUNTS :
        Acc(uid).running =>
            /\ uid \in DOMAIN TASKS
            /\ ~Done(tasks[TASKS[uid]])
            /\ ~tasks[TASKS[uid]].must_cancel

\* u1 runs again after a stop: running is true with the second task behind it
C19_Witness ==
    /\ "u1" \in DOMAIN ACCOUNTS /\ "u1" \in DOMAIN TASKS
    /\ Acc("u1").running /\ Acc("u1").online
    /\ last = StartResp("u1", None, "ok")
    /\ tasks[TASKS["u1"]].pc = "created"

(* ---------------- runs towards a target ---------------- *)
\* The runs in which stop and remove_account are never called, gw_start_match
\* never raises, and a poll either gains XP or fails (gained = 0).
TargetLoopStep(tid) ==
    /\ ~Done(tasks[tid])
    /\ \/ LoopFirst(tid)
       \/ LoopStartOk(tid)
       \/ LoopWaited(tid)
       \/ \E g \in PositiveGains : LoopPollOk(tid, g)
       \/ LoopPollError(tid)
       \/ LoopYielded(tid)

\* the poll of task tid returns a gain
TargetPollGains(tid) == \E g \in PositiveGains : LoopPollOk(tid, g)

TargetNext ==
    \/ \E uid \in UIDS : add_account(uid)
    \/ \E uid \in UIDS, t \in {None} \cup {Some(x) : x \in TargetInputs} : start(uid, t)
    \/ \E uid \in UIDS : reset_today(uid)
    \/ \E tid \in DOMAIN tasks : TargetLoopStep(tid)

\* the event loop runs every task that is ready (its gateway call and its
\* sleeps return), and a task that polls again and again is not refused a gain
\* for ever
TargetRunSpec ==
    /\ Init /\ [][TargetNext]_vars
    /\ \A tid \in 1..MaxTasks :
          /\ WF_vars(tid \in DOMAIN tasks /\ TargetLoopStep(tid))
          /\ SF_vars(tid \in DOMAIN tasks /\ TargetPollGains(tid))

\* C20: a loop of u1 that is not done while target_level is set leads to a state
\* in which its task is done, running is false and current_level >= target_level.
C20_TargetRunTerminates ==
    ("u1" \in DOMAIN TASKS /\ ~Done(tasks[TASKS["u1"]]) /\ Acc("u1").target_level # None)
    ~> (/\ "u1" \in DOMAIN TASKS /\ Done(tasks[TASKS["u1"]])
        /\ ~Acc("u1").running
        /\ \E t \in Acc("u1").target_level : Acc("u1").current_level >= t)

\* the run towards level 2 has ended after several gaining polls, the last one
\* after a reset of today_xp
C20_Witness ==
    /\ last = Resp("loop", "u1", "poll_ok")
    /\ "u1" \in DOMAIN TASKS /\ tasks[TASKS["u1"]].pc = "finished"
    /\ Acc("u1").target_level = Some(2) /\ Acc("u1").current_level = 2
    /\ Acc("u1").total_xp = 1000 /\ Acc("u1").today_xp = 250
    /\ ~Acc("u1").running
====
